---- MODULE Spec2Model ----
(***************************************************************************)
(* A model of the Unicon LSIF helper: the sharded LSIF backend             *)
(* (LSIFBackend: load, getHoverData, getDefinitionData, getReferencesData) *)
(* and the host handlers that create a backend and load an index into it.  *)
(***************************************************************************)
EXTENDS Integers, Sequences, FiniteSets, TLC

VARIABLES database, currentDocumentUri, history, cursorAtLoad, loadStatus, call, host

vars == <<database, currentDocumentUri, history, cursorAtLoad, loadStatus, call, host>>

(***************************************************************************)
(* Bounds of the model.                                                    *)
(***************************************************************************)
\* the number of load calls made on one backend instance
MaxLoads == 2

\* the number of LanguageClient objects that startLSP creates
MaxClients == 2

\* the number of restart timers that are pending at one time
MaxTimers == 1

(***************************************************************************)
(* JSON records.  A parsed record is a JavaScript object; a field the      *)
(* object does not have reads as undefined, which is modelled by the       *)
(* falsy value of the field's type ("" , 0, <<>>).                         *)
(***************************************************************************)
NoUri == ""

NoPos == [line |-> 0, character |-> 0]

Pos(l, c) == [line |-> l, character |-> c]

Obj(type, label, id) ==
    [type |-> type, label |-> label, id |-> id, uri |-> NoUri,
     start |-> NoPos, end |-> NoPos, outV |-> 0, inV |-> 0, inVs |-> <<>>,
     property |-> "", shard |-> 0, contents |-> <<>>]

Document(id, uri) == [Obj("vertex", "document", id) EXCEPT !.uri = uri]

Range(id, s, e) == [Obj("vertex", "range", id) EXCEPT !.start = s, !.end = e]

Vertex(label, id) == Obj("vertex", label, id)

HoverResult(id, values) ==
    [Obj("vertex", "hoverResult", id) EXCEPT
        !.contents = [i \in 1..Len(values) |-> [value |-> values[i]]]]

Edge1(label, id, outV, inV) ==
    [Obj("edge", label, id) EXCEPT !.outV = outV, !.inV = inV]

EdgeN(label, id, outV, inVs) ==
    [Obj("edge", label, id) EXCEPT !.outV = outV, !.inVs = inVs]

Item(id, outV, inVs, property, shard) ==
    [Obj("edge", "item", id) EXCEPT
        !.outV = outV, !.inVs = inVs, !.property = property, !.shard = shard]

\* a line of the file that is not JSON text
BadLine == Obj("malformed", "", 0)

\* a line of the file that is empty or white space
BlankLine == Obj("blank", "", 0)

(***************************************************************************)
(* The database: a Map from uri to {vertices, edges} (a Map iterates in    *)
(* insertion order, so it is a sequence of entries) and the map from the   *)
(* id of a document vertex to its uri.                                     *)
(***************************************************************************)
EmptyDatabase == [documents |-> <<>>, vertexIdToDocument |-> <<>>]

MapHas(docs, uri) == \E i \in 1..Len(docs) : docs[i].uri = uri

MapIndex(docs, uri) == CHOOSE i \in 1..Len(docs) : docs[i].uri = uri

MapGet(docs, uri) == docs[MapIndex(docs, uri)]

MapSetNew(docs, uri) == Append(docs, [uri |-> uri, vertices |-> <<>>, edges |-> <<>>])

MapDelete(docs, uri) == SelectSeq(docs, LAMBDA d : d.uri # uri)

PushVertex(docs, uri, obj) ==
    [docs EXCEPT ![MapIndex(docs, uri)].vertices = Append(@, obj)]

PushEdge(docs, uri, obj) ==
    [docs EXCEPT ![MapIndex(docs, uri)].edges = Append(@, obj)]

IdMapHas(m, id) == id \in DOMAIN m

IdMapSet(m, id, uri) == [x \in (DOMAIN m) \cup {id} |-> IF x = id THEN uri ELSE m[x]]

\* Array.prototype.find: the index of the first element that satisfies the
\* test (hits[i] is the test on element i), or 0 when there is none
FirstIndex(hits) ==
    IF \E i \in DOMAIN hits : hits[i]
    THEN CHOOSE i \in DOMAIN hits : hits[i] /\ \A j \in 1..(i - 1) : ~hits[j]
    ELSE 0

Includes(seq, x) == \E i \in 1..Len(seq) : seq[i] = x

(***************************************************************************)
(* load: the state of one run of load is the database, the cursor and      *)
(* whether an exception has ended the run.                                 *)
(***************************************************************************)
LoadState(db, cur) ==
    [documents |-> db.documents, vertexIdToDocument |-> db.vertexIdToDocument,
     cur |-> cur, threw |-> FALSE]

\* lines 276-282: a document vertex moves the cursor and opens its shard
OnDocument(st, obj) ==
    IF obj.label = "document" /\ obj.type = "vertex"
    THEN IF ~MapHas(st.documents, obj.uri)
         THEN [st EXCEPT !.cur = obj.uri,
                         !.documents = MapSetNew(st.documents, obj.uri),
                         !.vertexIdToDocument = IdMapSet(st.vertexIdToDocument, obj.id, obj.uri)]
         ELSE [st EXCEPT !.cur = obj.uri]
    ELSE st

\* lines 284-290: the record goes to the shard under the cursor; a cursor
\* whose shard is not in the Map makes documents.get(...) undefined, and the
\* property access on it throws a TypeError
OnRecord(st, obj) ==
    IF st.cur = NoUri \/ obj.type \notin {"vertex", "edge"}
    THEN st
    ELSE IF ~MapHas(st.documents, st.cur)
         THEN [st EXCEPT !.threw = TRUE]
         ELSE IF obj.type = "vertex"
              THEN [st EXCEPT !.documents = PushVertex(st.documents, st.cur, obj)]
              ELSE [st EXCEPT !.documents = PushEdge(st.documents, st.cur, obj)]

\* lines 292-297: a contains edge moves the cursor to the "unsorted" shard
OnContains(st, obj) ==
    IF obj.label = "contains" /\ obj.type = "edge"
    THEN IF ~MapHas(st.documents, "unsorted")
         THEN [st EXCEPT !.cur = "unsorted",
                         !.documents = MapSetNew(st.documents, "unsorted")]
         ELSE [st EXCEPT !.cur = "unsorted"]
    ELSE st

\* lines 273-298: the body of the forEach for one line; JSON.parse throws a
\* SyntaxError on a line that is not JSON
ProcessLine(st, line) ==
    IF st.threw THEN st
    ELSE IF line.type = "malformed" THEN [st EXCEPT !.threw = TRUE]
    ELSE LET s1 == OnDocument(st, line)
             s2 == OnRecord(s1, line)
         IN  IF s2.threw THEN s2 ELSE OnContains(s2, line)

\* line 271: split('\n').filter(line => line.trim() !== '')
FilterLines(lines) == SelectSeq(lines, LAMBDA l : l.type # "blank")

RECURSIVE ForEachLine(_, _, _)
ForEachLine(st, lines, i) ==
    IF i > Len(lines) THEN st
    ELSE ForEachLine(ProcessLine(st, lines[i]), lines, i + 1)

\* RepairEdge without the copy of the vertex at id - 2
RepairEdgeNoVertex(docs, idmap, unsorted, edge) ==
    IF edge.label = "item" /\ edge.shard # 0 /\ IdMapHas(idmap, edge.shard) /\ idmap[edge.shard] # NoUri
    THEN LET target == idmap[edge.shard]
             d1 == PushEdge(docs, target, edge)
             k1 == FirstIndex([n1 \in DOMAIN unsorted.edges |-> unsorted.edges[n1].id = edge.id - 1])
         IN  IF k1 # 0 THEN PushEdge(d1, target, unsorted.edges[k1]) ELSE d1
    ELSE docs

\* RepairEdge with a copy of every vertex of the unsorted shard
RepairEdgeAllVertices(docs, idmap, unsorted, edge) ==
    IF edge.label = "item" /\ edge.shard # 0 /\ IdMapHas(idmap, edge.shard) /\ idmap[edge.shard] # NoUri
    THEN LET target == idmap[edge.shard]
             d1 == PushEdge(docs, target, edge)
             k1 == FirstIndex([n1 \in DOMAIN unsorted.edges |-> unsorted.edges[n1].id = edge.id - 1])
             d2 == IF k1 # 0 THEN PushEdge(d1, target, unsorted.edges[k1]) ELSE d1
         IN  [d2 EXCEPT ![MapIndex(d2, target)].vertices = @ \o unsorted.vertices]
    ELSE docs

\* lines 303-318: one edge of the unsorted shard in the repair loop
RepairEdge(docs, idmap, unsorted, edge) ==
    IF edge.label = "item" /\ edge.shard # 0 /\ IdMapHas(idmap, edge.shard) /\ idmap[edge.shard] # NoUri
    THEN LET target == idmap[edge.shard]
             d1 == PushEdge(docs, target, edge)
             k1 == FirstIndex([n1 \in DOMAIN unsorted.edges |-> LET e == unsorted.edges[n1] IN e.id = edge.id - 1])
             d2 == IF k1 # 0 THEN PushEdge(d1, target, unsorted.edges[k1]) ELSE d1
             k2 == FirstIndex([n2 \in DOMAIN unsorted.vertices |-> LET v == unsorted.vertices[n2] IN v.id = edge.id - 2])
         IN  IF k2 # 0 THEN PushVertex(d2, target, unsorted.vertices[k2]) ELSE d2
    ELSE docs

RECURSIVE RepairLoop(_, _, _, _)
RepairLoop(docs, idmap, unsorted, i) ==
    IF i > Len(unsorted.edges) THEN docs
    ELSE RepairLoop(RepairEdge(docs, idmap, unsorted, unsorted.edges[i]), idmap, unsorted, i + 1)

\* RepairPass without the deletion of the unsorted shard
RepairPassKeepsShard(st) ==
    IF st.threw \/ ~MapHas(st.documents, "unsorted") THEN st
    ELSE LET unsorted == MapGet(st.documents, "unsorted")
         IN  [st EXCEPT !.documents =
                 RepairLoop(st.documents, st.vertexIdToDocument, unsorted, 1)]

\* lines 300-322: the repair pass, then the unsorted shard is deleted
RepairPass(st) ==
    IF st.threw \/ ~MapHas(st.documents, "unsorted") THEN st
    ELSE LET unsorted == MapGet(st.documents, "unsorted")
         IN  [st EXCEPT !.documents =
                 MapDelete(RepairLoop(st.documents, st.vertexIdToDocument, unsorted, 1), "unsorted")]

\* lines 267-328: load(filePath) on a backend whose fields are db and cur
LoadRun(db, cur, lines) == RepairPass(ForEachLine(LoadState(db, cur), FilterLines(lines), 1))

(***************************************************************************)
(* The resolvers.  A result is none (null), a text, a list of locations,   *)
(* or a fault (the call ended in an uncaught exception).                   *)
(***************************************************************************)
None == [kind |-> "none", text |-> "", locations |-> <<>>]

Text(t) == [kind |-> "text", text |-> t, locations |-> <<>>]

Locations(ls) == [kind |-> "locations", text |-> "", locations |-> ls]

Fault == [kind |-> "fault", text |-> "", locations |-> <<>>]

\* decodeURIComponent on the uris the host passes: every %XX escape is
\* replaced by the character it encodes
decodeURIComponent(uri) ==
    CASE uri = "file%3A///a" -> "file:///a"
      [] uri = "file%3A///b" -> "file:///b"
      [] OTHER -> uri

\* position.line += 1; position.character += 1 (on the caller's object)
Increment(position) == Pos(position.line + 1, position.character + 1)

\* InRange with the end bound excluded on the character axis
InRangeEndExcluded(position, range) ==
    /\ position.line >= range.start.line
    /\ position.line <= range.end.line
    /\ position.character >= range.start.character
    /\ position.character < range.end.character

\* the test of lines 357-358, 421-422 and 490-491
InRange(position, range) ==
    /\ position.line >= range.start.line
    /\ position.line <= range.end.line
    /\ position.character >= range.start.character
    /\ position.character <= range.end.character

\* documentData.edges.find(edge => edge.label === 'contains')
ContainsEdgeIndex(documentData) ==
    FirstIndex([n3 \in DOMAIN documentData.edges |-> LET e == documentData.edges[n3] IN e.label = "contains"])

\* documentData.vertices.find(vertex => vertex.id === id)
VertexIndex(documentData, id) ==
    FirstIndex([n4 \in DOMAIN documentData.vertices |-> LET v == documentData.vertices[n4] IN v.id = id])

\* join with the fragments in reverse order
RECURSIVE JoinReversed(_)
JoinReversed(contents) ==
    IF Len(contents) = 0 THEN ""
    ELSE IF Len(contents) = 1 THEN contents[1].value
    ELSE JoinReversed(Tail(contents)) \o "\n" \o contents[1].value

\* Array.prototype.join('\n') of contents.map(content => content.value)
RECURSIVE Join(_)
Join(contents) ==
    IF Len(contents) = 0 THEN ""
    ELSE IF Len(contents) = 1 THEN contents[1].value
    ELSE contents[1].value \o "\n" \o Join(Tail(contents))

\* new vscode.Position(line, character): a negative component is an
\* illegal argument
ValidPosition(p) == p.line >= 0 /\ p.character >= 0

Before(p, q) == p.line < q.line \/ (p.line = q.line /\ p.character < q.character)

\* new vscode.Range(start, end): start and end are swapped when end is
\* before start
VsRange(s, e) == IF Before(e, s) THEN [start |-> e, end |-> s] ELSE [start |-> s, end |-> e]

\* LocationOf with 1 subtracted from the lines only
LocationOfLinesOnly(uri, vertex) ==
    LET s == Pos(vertex.start.line - 1, vertex.start.character)
        e == Pos(vertex.end.line - 1, vertex.end.character)
    IN  IF vertex.label # "range" \/ ~ValidPosition(s) \/ ~ValidPosition(e)
        THEN [fault |-> TRUE, uri |-> NoUri, range |-> VsRange(NoPos, NoPos)]
        ELSE [fault |-> FALSE, uri |-> uri, range |-> VsRange(s, e)]

\* lines 442-446 and 559-563: the location of a found vertex.  A vertex
\* without start/end (any vertex that is no range) makes the access to
\* start.line throw a TypeError.
LocationOf(uri, vertex) ==
    LET s == Pos(vertex.start.line - 1, vertex.start.character - 1)
        e == Pos(vertex.end.line - 1, vertex.end.character - 1)
    IN  IF vertex.label # "range" \/ ~ValidPosition(s) \/ ~ValidPosition(e)
        THEN [fault |-> TRUE, uri |-> NoUri, range |-> VsRange(NoPos, NoPos)]
        ELSE [fault |-> FALSE, uri |-> uri, range |-> VsRange(s, e)]

\* what nested loops push to one list: parts[i] is what iteration i pushes
Concat(parts) ==
    LET f[i \in 0..Len(parts)] == IF i = 0 THEN <<>> ELSE f[i - 1] \o parts[i]
    IN  f[Len(parts)]

\* what a resolver that collects locations returns: an exception in the
\* loops ends the call, an empty list is returned as null
Collected(emitted) ==
    IF \E i \in 1..Len(emitted) : emitted[i].fault THEN Fault
    ELSE IF Len(emitted) = 0 THEN None
    ELSE Locations([i \in 1..Len(emitted) |-> [uri |-> emitted[i].uri, range |-> emitted[i].range]])

(***************************************************************************)
(* getHoverData                                                            *)
(***************************************************************************)
\* lines 366-376: the inner loop over the edges for one next edge
HoverAfterNext(documentData, edge) ==
    LET Hit(edge2) ==
            /\ edge2.label = "textDocument/hover"
            /\ edge2.outV = edge.inV
            /\ LET k == VertexIndex(documentData, edge2.inV)
               IN  k # 0 /\ documentData.vertices[k].label = "hoverResult"
        j == FirstIndex([n5 \in DOMAIN documentData.edges |-> Hit(documentData.edges[n5])])
    IN  IF j = 0 THEN [found |-> <<>>, result |-> None]
        ELSE LET hoverResult == documentData.vertices[VertexIndex(documentData, documentData.edges[j].inV)]
             IN  [found |-> <<hoverResult>>, result |-> Text(Join(hoverResult.contents))]

\* lines 377-383: a textDocument/hover edge whose source is the range
HoverDirect(documentData, edge) ==
    LET k == VertexIndex(documentData, edge.inV)
    IN  IF k = 0 \/ documentData.vertices[k].label # "hoverResult"
        THEN [found |-> <<>>, result |-> Fault]
        ELSE [found |-> <<documentData.vertices[k]>>,
              result |-> Text(Join(documentData.vertices[k].contents))]

\* lines 363-384: the loop over the edges for one matched range
RECURSIVE HoverEdges(_, _, _)
HoverEdges(documentData, range, j) ==
    IF j > Len(documentData.edges) THEN [found |-> <<>>, result |-> None]
    ELSE LET edge == documentData.edges[j]
         IN  IF edge.label = "next" /\ edge.outV = range.id
             THEN LET r == HoverAfterNext(documentData, edge)
                  IN  IF r.result.kind # "none" THEN r
                      ELSE HoverEdges(documentData, range, j + 1)
             ELSE IF edge.label = "textDocument/hover" /\ edge.outV = range.id
             THEN HoverDirect(documentData, edge)
             ELSE HoverEdges(documentData, range, j + 1)

\* lines 353-386: the loop over the targets of the contains edge
RECURSIVE HoverRanges(_, _, _, _, _)
HoverRanges(documentData, inVs, position, i, matched) ==
    IF i > Len(inVs) THEN [matched |-> matched, found |-> <<>>, result |-> None]
    ELSE LET k == VertexIndex(documentData, inVs[i])
         IN  IF k = 0 \/ documentData.vertices[k].label # "range"
             THEN HoverRanges(documentData, inVs, position, i + 1, matched)
             ELSE LET range == documentData.vertices[k]
                  IN  IF InRange(position, range)
                      THEN LET r == HoverEdges(documentData, range, 1)
                           IN  IF r.result.kind # "none"
                               THEN [matched |-> Append(matched, range), found |-> r.found, result |-> r.result]
                               ELSE HoverRanges(documentData, inVs, position, i + 1, Append(matched, range))
                      ELSE HoverRanges(documentData, inVs, position, i + 1, matched)

\* lines 331-390
getHoverData(db, documentUri, position0) ==
    LET uri == decodeURIComponent(documentUri)
        position == Increment(position0)
        nothing == [matched |-> <<>>, found |-> <<>>, result |-> None]
    IN  IF ~MapHas(db.documents, uri) THEN nothing
        ELSE LET documentData == MapGet(db.documents, uri)
                 c == ContainsEdgeIndex(documentData)
             IN  IF c = 0 THEN nothing
                 ELSE HoverRanges(documentData, documentData.edges[c].inVs, position, 1, <<>>)

(***************************************************************************)
(* getDefinitionData                                                       *)
(***************************************************************************)
\* the ranges of the contains edge that the loop of lines 417-422 (and of
\* 353-358) accepts for the position, in the order of the target list
MatchedRanges(documentData, inVs, position) ==
    Concat([n12 \in DOMAIN inVs |-> LET rangeId == inVs[n12] IN
        LET k == VertexIndex(documentData, rangeId)
        IN  IF k # 0 /\ documentData.vertices[k].label = "range"
                     /\ InRange(position, documentData.vertices[k])
            THEN <<documentData.vertices[k]>> ELSE <<>>])

\* lines 436-447: one edge of a scanned shard, for a reference item edge
DefinedItem(db, docUri, definitionData, referenceItem, definedItem) ==
    IF definedItem.label = "item" /\ definedItem.outV = referenceItem.outV
                                  /\ definedItem.property = "definitions"
    THEN LET definitionDocUri ==
                 IF IdMapHas(db.vertexIdToDocument, definedItem.shard)
                    /\ db.vertexIdToDocument[definedItem.shard] # NoUri
                 THEN db.vertexIdToDocument[definedItem.shard] ELSE docUri
             k == FirstIndex([n6 \in DOMAIN definitionData.vertices |-> LET v == definitionData.vertices[n6] IN Includes(definedItem.inVs, v.id)])
         IN  IF k # 0 THEN <<LocationOf(definitionDocUri, definitionData.vertices[k])>> ELSE <<>>
    ELSE <<>>

\* lines 430-450: the scan of every shard for one reference item edge
ScanDefinitions(db, referenceItem) ==
    Concat([n13 \in DOMAIN db.documents |-> LET entry == db.documents[n13] IN
        IF ContainsEdgeIndex(entry) = 0 THEN <<>>
        ELSE Concat([n14 \in DOMAIN entry.edges |-> LET definedItem == entry.edges[n14] IN
                 DefinedItem(db, entry.uri, entry, referenceItem, definedItem)])])

\* lines 427-452: the item edges of the shard that list the range
DefinitionsOfRange(db, documentData, range) ==
    Concat([n15 \in DOMAIN documentData.edges |-> LET referenceItem == documentData.edges[n15] IN
        IF referenceItem.label = "item" /\ Includes(referenceItem.inVs, range.id)
        THEN ScanDefinitions(db, referenceItem) ELSE <<>>])

\* lines 393-461
getDefinitionData(db, documentUri, position0) ==
    LET uri == decodeURIComponent(documentUri)
        position == Increment(position0)
        nothing == [matched |-> <<>>, found |-> <<>>, result |-> None]
    IN  IF ~MapHas(db.documents, uri) THEN nothing
        ELSE LET documentData == MapGet(db.documents, uri)
                 c == ContainsEdgeIndex(documentData)
             IN  IF c = 0 THEN nothing
                 ELSE LET matched == MatchedRanges(documentData, documentData.edges[c].inVs, position)
                          emitted == Concat([n16 \in DOMAIN matched |-> LET range == matched[n16] IN DefinitionsOfRange(db, documentData, range)])
                      IN  [matched |-> matched, found |-> <<>>, result |-> Collected(emitted)]

(***************************************************************************)
(* getReferencesData                                                       *)
(***************************************************************************)
\* lines 536-541: the references item edges of every shard, in Map order
ReferenceEdges(db, referenceResult) ==
    Concat([n17 \in DOMAIN db.documents |-> LET docData == db.documents[n17] IN
        SelectSeq(docData.edges, LAMBDA edge :
            edge.label = "item" /\ edge.outV = referenceResult.id /\ edge.property = "references")])

\* lines 551-565: the locations of one references item edge
ReferenceItem(db, documentUri, itemEdge) ==
    LET targetDocumentUri ==
            IF IdMapHas(db.vertexIdToDocument, itemEdge.shard)
               /\ db.vertexIdToDocument[itemEdge.shard] # NoUri
            THEN db.vertexIdToDocument[itemEdge.shard] ELSE documentUri
    IN  IF ~MapHas(db.documents, targetDocumentUri) THEN <<>>
        ELSE LET targetDocumentData == MapGet(db.documents, targetDocumentUri)
             IN  Concat([n18 \in DOMAIN itemEdge.inVs |-> LET rangeId == itemEdge.inVs[n18] IN
                     LET k == FirstIndex([n7 \in DOMAIN targetDocumentData.vertices |->
                                 LET v == targetDocumentData.vertices[n7] IN v.id = rangeId /\ v.label = "range"])
                     IN  IF k # 0 THEN <<LocationOf(targetDocumentUri, targetDocumentData.vertices[k])>>
                         ELSE <<>>])

\* lines 503-575: from the matched range to the locations
ReferencesOfRange(db, documentUri, documentData, rangeVertex) ==
    LET e1 == FirstIndex([n8 \in DOMAIN documentData.edges |-> LET edge == documentData.edges[n8] IN edge.label = "next" /\ edge.outV = rangeVertex.id])
    IN  IF e1 = 0 THEN None
        ELSE
    LET resultSetEdge == documentData.edges[e1]
        v1 == FirstIndex([n9 \in DOMAIN documentData.vertices |-> LET v == documentData.vertices[n9] IN v.id = resultSetEdge.inV /\ v.label = "resultSet"])
    IN  IF v1 = 0 THEN None
        ELSE
    LET resultSetVertex == documentData.vertices[v1]
        e2 == FirstIndex([n10 \in DOMAIN documentData.edges |->
                   LET edge == documentData.edges[n10]
                   IN  edge.label = "textDocument/references" /\ edge.outV = resultSetVertex.id])
    IN  IF e2 = 0 THEN None
        ELSE
    LET referenceEdge == documentData.edges[e2]
        v2 == FirstIndex([n11 \in DOMAIN documentData.vertices |-> LET v == documentData.vertices[n11] IN v.id = referenceEdge.inV /\ v.label = "referenceResult"])
    IN  IF v2 = 0 THEN None
        ELSE
    LET referenceEdges == ReferenceEdges(db, documentData.vertices[v2])
    IN  IF Len(referenceEdges) = 0 THEN None
        ELSE Collected(Concat([n19 \in DOMAIN referenceEdges |-> LET itemEdge == referenceEdges[n19] IN ReferenceItem(db, documentUri, itemEdge)]))

\* getReferencesData with the last range that has the position
getReferencesDataLastMatch(db, documentUri, position0) ==
    LET uri == decodeURIComponent(documentUri)
        position == Increment(position0)
        nothing == [matched |-> <<>>, found |-> <<>>, result |-> None]
    IN  IF ~MapHas(db.documents, uri) THEN nothing
        ELSE LET documentData == MapGet(db.documents, uri)
                 c == ContainsEdgeIndex(documentData)
             IN  IF c = 0 THEN nothing
                 ELSE LET all == MatchedRanges(documentData, documentData.edges[c].inVs, position)
                      IN  IF Len(all) = 0 THEN nothing
                          ELSE [matched |-> <<all[Len(all)]>>, found |-> <<>>,
                                result |-> ReferencesOfRange(db, uri, documentData, all[Len(all)])]

\* lines 464-501: the first range of the contains edge that has the position
getReferencesData(db, documentUri, position0) ==
    LET uri == decodeURIComponent(documentUri)
        position == Increment(position0)
        nothing == [matched |-> <<>>, found |-> <<>>, result |-> None]
    IN  IF ~MapHas(db.documents, uri) THEN nothing
        ELSE LET documentData == MapGet(db.documents, uri)
                 c == ContainsEdgeIndex(documentData)
             IN  IF c = 0 THEN nothing
                 ELSE LET all == MatchedRanges(documentData, documentData.edges[c].inVs, position)
                      IN  IF Len(all) = 0 THEN nothing
                          ELSE [matched |-> <<all[1]>>, found |-> <<>>,
                                result |-> ReferencesOfRange(db, uri, documentData, all[1])]

(***************************************************************************)
(* The index files of the model: the lines of each file, in file order.    *)
(***************************************************************************)
UriA == "file:///a"

UriB == "file:///b"

DocA == Document(1, UriA)

DocB == Document(2, UriB)

\* ranges of document a
RA1 == Range(3, Pos(2, 2), Pos(2, 6))

RA2 == Range(13, Pos(2, 4), Pos(4, 5))

RAd == Range(14, Pos(4, 1), Pos(4, 3))

\* range of document b
RB1 == Range(21, Pos(1, 1), Pos(1, 3))

ContainsA == EdgeN("contains", 4, 1, <<3>>)

ContainsA2 == EdgeN("contains", 4, 1, <<13, 3>>)

ContainsA3 == EdgeN("contains", 4, 1, <<3, 14>>)

ContainsB == EdgeN("contains", 22, 2, <<21>>)

RS5 == Vertex("resultSet", 5)

Next6 == Edge1("next", 6, 3, 5)

HR7 == HoverResult(7, <<"x">>)

Hov8 == Edge1("textDocument/hover", 8, 5, 7)

HR9 == HoverResult(9, <<"a", "b">>)

HR12 == HoverResult(12, <<"c", "a", "b">>)

HovDirect10 == Edge1("textDocument/hover", 10, 3, 9)

Hov11 == Edge1("textDocument/hover", 11, 5, 12)

RefRes15 == Vertex("referenceResult", 15)

RefEdge16 == Edge1("textDocument/references", 16, 5, 15)

\* the end-to-end index: the contains edge closes the block of the document
HoverIndex == <<DocA, RA1, RS5, Next6, HR7, Hov8, ContainsA>>

\* the same records with the contains edge right after the range
HoverIndexContainsEarly == <<DocA, RA1, ContainsA, RS5, Next6, HR7, Hov8>>

\* two fragments behind a hover edge whose source is the range
HoverDirectIndex == <<DocA, BlankLine, RA1, HR9, HovDirect10, ContainsA>>

\* three fragments behind next, and overlapping ranges
HoverNextIndex == <<DocA, RA2, RA1, RS5, Next6, HR12, Hov11, ContainsA2>>

\* a hover edge whose target vertex is not in the file
HoverDanglingIndex == <<DocA, RA1, HovDirect10, ContainsA>>

\* a cross-file symbol in the layout of the producer: the blocks of the two
\* documents, then (resultSet, next, item) triples with a shard field
TwoDefsIndex ==
    <<DocA, RA1, RAd, ContainsA3, DocB, RB1, ContainsB,
      Vertex("resultSet", 40), Edge1("next", 41, 14, 40), Item(42, 50, <<14>>, "definitions", 1),
      Vertex("resultSet", 43), Edge1("next", 44, 21, 43), Item(45, 50, <<21>>, "definitions", 2),
      Vertex("resultSet", 46), Edge1("next", 47, 3, 46), Item(48, 50, <<3>>, "references", 1)>>

\* the same symbol with the item edges inside the block of document a
TwoDefsInBlockIndex ==
    <<DocB, RB1, ContainsB,
      DocA, RA1, RAd,
      Item(42, 50, <<14>>, "definitions", 1), Item(45, 50, <<21>>, "definitions", 2),
      Item(48, 50, <<3>>, "references", 1), ContainsA3>>

\* references of a symbol over two documents: the chain of the range is in
\* the block of document a, the item edges are triples behind the blocks
ReferencesIndex ==
    <<DocA, RA1, RAd, RS5, Next6, RefRes15, RefEdge16, ContainsA3,
      DocB, RB1, ContainsB,
      Vertex("resultSet", 40), Edge1("next", 41, 14, 40), Item(42, 15, <<14>>, "definitions", 1),
      Vertex("resultSet", 46), Edge1("next", 47, 3, 46), Item(48, 15, <<3, 14>>, "references", 1),
      Vertex("resultSet", 51), Edge1("next", 52, 21, 51), Item(53, 15, <<21>>, "references", 2)>>

\* whole chains whose last item edges have no target
EmptyTargetsIndex ==
    <<DocA, RA1, RS5, Next6, RefRes15, RefEdge16,
      Item(48, 15, <<3>>, "", 0),
      Item(42, 15, <<>>, "definitions", 0), Item(49, 15, <<>>, "references", 0), ContainsA>>

\* whole chains whose last item edges have a target that is no range
NonRangeTargetsIndex ==
    <<DocA, RA1, RS5, Next6, RefRes15, RefEdge16,
      Item(48, 15, <<3>>, "", 0),
      Item(42, 15, <<5>>, "definitions", 0), Item(49, 15, <<5>>, "references", 0), ContainsA>>

\* records behind the contains edge of the only document, with a second
\* contains edge among them
OrphansIndex ==
    <<DocA, ContainsA, RA1, HR7, Edge1("textDocument/hover", 10, 3, 7),
      EdgeN("contains", 18, 1, <<3>>), Vertex("resultSet", 19)>>

\* a document without a contains edge
NoContainsIndex == <<DocA, RA1, RS5, Next6, HR7, Hov8>>

\* records that lack a required field: a range without id, a resultSet
\* without label and a next edge without type
MissingFieldsIndex ==
    <<DocA, RA1, [RA2 EXCEPT !.id = 0], [RS5 EXCEPT !.label = ""],
      [Next6 EXCEPT !.type = ""], HR7, Hov8, ContainsA>>

\* a contains edge before the first document vertex
ContainsFirstIndex == <<ContainsA, DocA, RA1, RS5, Next6, HR7, Hov8>>

\* an item edge with a shard field behind the blocks, with a hover edge and
\* a hoverResult at the two ids before its own
OtherTripleIndex ==
    <<DocA, RA1, RAd, ContainsA3, DocB, RB1, ContainsB,
      HoverResult(40, <<"y">>), Edge1("textDocument/hover", 41, 3, 40),
      Item(42, 50, <<14>>, "definitions", 1)>>

\* an item edge with a shard field behind the blocks and nothing at the two
\* ids before its own, and one whose shard field names no document
LoneItemIndex ==
    <<DocA, RA1, ContainsA, Item(48, 15, <<3>>, "references", 1),
      Vertex("resultSet", 51), Edge1("next", 52, 3, 51), Item(53, 15, <<3>>, "references", 9)>>

\* overlapping ranges 13 and 3, 13 first in the contains edge; only range 3
\* is listed by an item edge, and the symbol is defined at range 14
OverlapDefsIndex ==
    <<DocA, RA2, RA1, RAd, EdgeN("contains", 4, 1, <<13, 3, 14>>),
      Vertex("resultSet", 40), Edge1("next", 41, 14, 40), Item(42, 50, <<14>>, "definitions", 1),
      Vertex("resultSet", 46), Edge1("next", 47, 3, 46), Item(48, 50, <<3>>, "references", 1)>>

\* a definitions item edge with two targets, both ranges of document a
TwoTargetsIndex ==
    <<DocA, RA1, RAd, RA2, EdgeN("contains", 4, 1, <<3, 14, 13>>),
      Vertex("resultSet", 40), Edge1("next", 41, 14, 40), Item(42, 50, <<14, 13>>, "definitions", 1),
      Vertex("resultSet", 46), Edge1("next", 47, 3, 46), Item(48, 50, <<3>>, "references", 1)>>

\* references of one symbol in two documents, each item edge in the block
\* of its document and without a shard field
RefsInBlocksIndex ==
    <<DocA, RA1, RS5, Next6, RefRes15, RefEdge16, Item(48, 15, <<3>>, "references", 0), ContainsA,
      DocB, RB1, Item(53, 15, <<21>>, "references", 0), ContainsB>>

\* the same with range 14 of document a among the targets of the item edge
\* in the block of document b
RefsStrayTargetIndex ==
    <<DocA, RA1, RAd, RS5, Next6, RefRes15, RefEdge16, Item(48, 15, <<3>>, "references", 0), ContainsA3,
      DocB, RB1, Item(53, 15, <<21, 14>>, "references", 0), ContainsB>>

\* overlapping ranges 13 and 3, 13 first in the contains edge, each with its
\* own chain to a referenceResult
OverlapRefsIndex ==
    <<DocA, RA2, RA1, RAd,
      Vertex("resultSet", 30), Edge1("next", 31, 13, 30), Vertex("referenceResult", 32),
      Edge1("textDocument/references", 33, 30, 32), Item(34, 32, <<14>>, "references", 0),
      RS5, Next6, RefRes15, RefEdge16, Item(48, 15, <<3>>, "references", 0),
      EdgeN("contains", 4, 1, <<13, 3, 14>>)>>

\* two item edges with a shard field at consecutive ids behind the blocks
ConsecutiveItemsIndex ==
    <<DocA, RA1, RS5, Next6, RefRes15, RefEdge16, ContainsA, DocB, RB1, ContainsB,
      Vertex("resultSet", 40), Edge1("next", 41, 21, 40),
      Item(42, 15, <<3>>, "references", 1), Item(43, 15, <<21>>, "references", 2)>>

BaseIndexes ==
    {RefsInBlocksIndex, RefsStrayTargetIndex, OverlapRefsIndex, ConsecutiveItemsIndex,
     TwoTargetsIndex, OverlapDefsIndex, MissingFieldsIndex, ContainsFirstIndex, OtherTripleIndex, LoneItemIndex, HoverIndex, HoverIndexContainsEarly, HoverDirectIndex, HoverNextIndex, HoverDanglingIndex,
     TwoDefsIndex, TwoDefsInBlockIndex, ReferencesIndex, EmptyTargetsIndex,
     NonRangeTargetsIndex, OrphansIndex, NoContainsIndex}

\* the file cut after its first k lines, the cut leaving a line that is not JSON
Truncated(lines, k) == Append(SubSeq(lines, 1, k), BadLine)

\* the files that are also read cut
CutIndexes == {HoverIndex, OrphansIndex, TwoDefsIndex}

\* every index file: whole, or cut anywhere
Indexes == BaseIndexes \cup UNION {{Truncated(s, k) : k \in 0..(Len(s) - 1)} : s \in CutIndexes}

Uris == {UriA, UriB, "file%3A///a", "unsorted", "file:///c"}

Positions ==
    {Pos(1, 3), Pos(1, 1), Pos(1, 5), Pos(1, 0), Pos(1, 6), Pos(0, 3), Pos(5, 5),
     Pos(2, 8), Pos(3, 3), Pos(3, 1), Pos(0, 0)}

(***************************************************************************)
(* The host (src/src/extension.ts) and its calls of the backend.           *)
(***************************************************************************)
NoRequest == [method |-> "", uri |-> NoUri, position |-> NoPos]

Idle == [op |-> "none", uri |-> NoUri, pos |-> NoPos, position |-> NoPos,
         result |-> None, matched |-> <<>>, found |-> <<>>,
         ready |-> FALSE, forwarded |-> FALSE, request |-> NoRequest]

\* the module variables of extension.ts: client (0 is undefined, otherwise
\* the number of the LanguageClient object), lspStartUp, lsifStarted and
\* lsifProviders (registered or not); with them the clients that were
\* started and not stopped, the startLSP calls that wait for client.start(),
\* the delay timers and the restart timers that are pending, and the mode
\* that the last activation or mode change has read
HostOf(mode) ==
    [mode |-> mode, client |-> 0, lspStartUp |-> FALSE, lsifStarted |-> TRUE,
     providers |-> TRUE, alive |-> {}, created |-> 0, pendingStart |-> {},
     delayTimers |-> {}, restartTimers |-> 0]

\* the host after an activation in mode "LSIF only" that found no index file
Init ==
    /\ database = EmptyDatabase
    /\ currentDocumentUri = NoUri
    /\ history = <<>>
    /\ cursorAtLoad = NoUri
    /\ loadStatus = "none"
    /\ call = Idle
    /\ host = HostOf("LSIF only")

\* the fields of the backend after load(lines) has run on (db, cur)
Loaded(db, cur, lines) ==
    LET st == LoadRun(db, cur, lines)
    IN  /\ database' = [documents |-> st.documents, vertexIdToDocument |-> st.vertexIdToDocument]
        /\ currentDocumentUri' = st.cur
        /\ loadStatus' = IF st.threw THEN "threw" ELSE "ok"
        /\ call' = [Idle EXCEPT !.op = "load"]

\* extension.loadLsifFile: a new backend is assigned, then load runs on it;
\* an exception of load is caught and logged
LoadLsifFile(lines) ==
    /\ Loaded(EmptyDatabase, NoUri, lines)
    /\ history' = <<lines>>
    /\ cursorAtLoad' = NoUri
    /\ host' = host

\* if (hoverData), if (locations && locations.length > 0)
Truthy(r) == (r.kind = "text" /\ r.text # "") \/ r.kind = "locations"

Method(op) == IF op = "hover" THEN "textDocument/hover" ELSE "textDocument/definition"

\* Forwards without the test of lspStartUp
ForwardsUnready(op, r, h) ==
    /\ op \in {"hover", "definitions"}
    /\ r.kind # "fault"
    /\ ~Truthy(r)
    /\ h.client # 0

\* lines 221-227 and 243-249: the provider sends the request to the
\* language server; lines 265-268: the references provider never does.  An
\* exception of the resolver leaves the provider before the test.
Forwards(op, r, h) ==
    /\ op \in {"hover", "definitions"}
    /\ r.kind # "fault"
    /\ ~Truthy(r)
    /\ h.client # 0 /\ h.lspStartUp

\* the provider passes {line: position.line, character: position.character}
\* to the resolver, which adds 1 to both fields of that object, and sends
\* its own position to the language server
Provided(op, uri, pos, r) ==
    LET given == Pos(pos.line, pos.character)
        sends == Forwards(op, r.result, host)
    IN  [op |-> op, uri |-> uri, pos |-> pos, position |-> Increment(given),
         result |-> r.result, matched |-> r.matched, found |-> r.found,
         ready |-> (host.client # 0 /\ host.lspStartUp),
         forwarded |-> sends,
         request |-> IF sends THEN [method |-> Method(op), uri |-> uri, position |-> pos]
                     ELSE NoRequest]

\* a resolver call that writes the queried uri into the id -> uri map
CalledCaching(op, uri, pos, r) ==
    /\ host.providers
    /\ call' = Provided(op, uri, pos, r)
    /\ database' = [database EXCEPT !.vertexIdToDocument = IdMapSet(@, 0, uri)]
    /\ UNCHANGED <<currentDocumentUri, history, cursorAtLoad, loadStatus, host>>

\* a registered provider is called
Called(op, uri, pos, r) ==
    /\ host.providers
    /\ call' = Provided(op, uri, pos, r)
    /\ UNCHANGED <<database, currentDocumentUri, history, cursorAtLoad, loadStatus, host>>

\* provideHover
Hover(uri, pos) == Called("hover", uri, pos, getHoverData(database, uri, pos))

\* provideDefinition
Definition(uri, pos) == Called("definitions", uri, pos, getDefinitionData(database, uri, pos))

\* provideReferences
References(uri, pos) == Called("references", uri, pos, getReferencesData(database, uri, pos))

Next ==
    \/ \E lines \in Indexes : LoadLsifFile(lines)
    \/ \E uri \in Uris, pos \in Positions : Hover(uri, pos)
    \/ \E uri \in Uris, pos \in Positions : Definition(uri, pos)
    \/ \E uri \in Uris, pos \in Positions : References(uri, pos)

Spec == Init /\ [][Next]_vars

(***************************************************************************)
(* The host of src/unnamed/part_000: one backend is created at activation  *)
(* and every load, at activation or by the command, runs on that backend.  *)
(***************************************************************************)
\* a file with one document, b
DocBIndex == <<DocB, RB1, ContainsB>>

\* the same file behind the metaData vertex that opens an LSIF dump
MetaDataIndex == <<Vertex("metaData", 60), DocB, RB1, ContainsB>>

ReloadIndexes == {HoverIndex, TwoDefsIndex, DocBIndex, MetaDataIndex, Truncated(HoverIndex, 3)}

\* lsifBackend.load(filePath) on the backend in use, exceptions caught
LoadInPlace(lines) ==
    /\ Len(history) < MaxLoads
    /\ Loaded(database, currentDocumentUri, lines)
    /\ history' = Append(history, lines)
    /\ cursorAtLoad' = currentDocumentUri
    /\ host' = host

InPlacePositions == {Pos(1, 1), Pos(1, 3), Pos(5, 5)}

NextInPlace ==
    \/ \E lines \in ReloadIndexes : LoadInPlace(lines)
    \/ \E uri \in Uris, pos \in InPlacePositions : Hover(uri, pos)
    \/ \E uri \in Uris, pos \in InPlacePositions : Definition(uri, pos)
    \/ \E uri \in Uris, pos \in InPlacePositions : References(uri, pos)

SpecInPlace == Init /\ [][NextInPlace]_vars

(***************************************************************************)
(* The end-to-end index in every order of its records behind the document  *)
(* vertex, loaded into a new backend and asked for hover.                  *)
(***************************************************************************)
E2ERest == <<RA1, ContainsA, Next6, RS5, Hov8, HR7>>

E2EOrders ==
    {<<DocA>> \o [i \in DOMAIN E2ERest |-> E2ERest[p[i]]] :
        p \in {q \in [DOMAIN E2ERest -> DOMAIN E2ERest] :
                  \A i, j \in DOMAIN E2ERest : i # j => q[i] # q[j]}}

E2EPositions == {Pos(1, 3), Pos(5, 5), Pos(1, 6)}

LoadE2E(lines) == history = <<>> /\ LoadLsifFile(lines)

NextE2E ==
    \/ \E lines \in E2EOrders : LoadE2E(lines)
    \/ \E pos \in E2EPositions : Hover(UriA, pos)

SpecE2E == Init /\ [][NextE2E]_vars

(***************************************************************************)
(* The host with its language client: activation, the configuration        *)
(* handler, the timers, the load command and the providers.                *)
(***************************************************************************)
Modes == {"Both", "LSP only", "LSIF only", "Neither"}

WithLSP == {"LSP only", "Both"}

WithLSIF == {"LSIF only", "Both"}

\* a hover edge from the range to a hoverResult without fragments
HoverEmptyIndex == <<DocA, RA1, HoverResult(9, <<>>), HovDirect10, ContainsA>>

HostIndexes ==
    {HoverIndex, HoverEmptyIndex, HoverDanglingIndex, TwoDefsIndex}

\* what startLSIF finds: no workspace folder, a folder without an index
\* file, or a folder with one
NoFolder == [folders |-> FALSE, found |-> FALSE, lines |-> <<>>]

NoFile == [folders |-> TRUE, found |-> FALSE, lines |-> <<>>]

Workspaces ==
    {NoFolder, NoFile} \cup {[folders |-> TRUE, found |-> TRUE, lines |-> f] : f \in HostIndexes}

HostPositions == {Pos(1, 1), Pos(5, 5)}

\* startLSP up to its await: lspStartUp is reset and a new client replaces
\* the value of client
StartLSP(h) ==
    [h EXCEPT !.lspStartUp = FALSE,
              !.client = h.created + 1,
              !.created = h.created + 1,
              !.alive = h.alive \cup {h.created + 1},
              !.pendingStart = h.pendingStart \cup {h.created + 1}]

\* client.stop(); client = undefined
StopClient(h) == [h EXCEPT !.alive = h.alive \ {h.client}, !.client = 0]

\* the backend fields after startLSIF: a new backend, and the index file
\* loaded into it when one is found (an exception of load is caught)
BackendStarted(ws) ==
    IF ws.folders /\ ws.found
    THEN LET st == LoadRun(EmptyDatabase, NoUri, ws.lines)
         IN  [database |-> [documents |-> st.documents, vertexIdToDocument |-> st.vertexIdToDocument],
              cur |-> st.cur, history |-> <<ws.lines>>,
              status |-> IF st.threw THEN "threw" ELSE "ok"]
    ELSE [database |-> EmptyDatabase, cur |-> NoUri, history |-> <<>>, status |-> "none"]

\* a new backend that has loaded nothing
BackendNew == [database |-> EmptyDatabase, cur |-> NoUri, history |-> <<>>, status |-> "none"]

BackendKept ==
    [database |-> database, cur |-> currentDocumentUri, history |-> history, status |-> loadStatus]

\* activate: the state in which activation leaves the extension
Activated(mode, ws) ==
    LET h0 == [HostOf(mode) EXCEPT !.providers = FALSE]
        h1 == IF mode \in WithLSP THEN StartLSP(h0) ELSE h0
        h2 == IF mode \in WithLSIF THEN [h1 EXCEPT !.providers = ws.folders]
              ELSE [h1 EXCEPT !.lsifStarted = FALSE]
        b == IF mode \in WithLSIF THEN BackendStarted(ws) ELSE BackendNew
    IN  /\ host = h2
        /\ database = b.database
        /\ currentDocumentUri = b.cur
        /\ history = b.history
        /\ cursorAtLoad = NoUri
        /\ loadStatus = b.status
        /\ call = Idle

InitHost == \E mode \in Modes, ws \in Workspaces : Activated(mode, ws)

\* onDidChangeConfiguration for lspMain.mode
ModeChanged(newMode, ws) ==
    LET h1 == IF newMode \notin WithLSP /\ host.client # 0 THEN StopClient(host) ELSE host
        stopLsif == newMode \notin WithLSIF /\ h1.lsifStarted
        h2 == IF stopLsif THEN [h1 EXCEPT !.providers = FALSE, !.lsifStarted = FALSE] ELSE h1
        startLsp == newMode \in WithLSP /\ h2.client = 0
        h3 == IF startLsp THEN StartLSP(h2) ELSE h2
        startLsif == newMode \in WithLSIF /\ ~h3.lsifStarted
        h4 == IF startLsif THEN [h3 EXCEPT !.providers = ws.folders, !.lsifStarted = TRUE] ELSE h3
        b == IF startLsif THEN BackendStarted(ws)
             ELSE IF stopLsif THEN BackendNew ELSE BackendKept
    IN  /\ startLsp => host.created < MaxClients
        /\ host' = [h4 EXCEPT !.mode = newMode]
        /\ database' = b.database
        /\ currentDocumentUri' = b.cur
        /\ history' = b.history
        /\ cursorAtLoad' = NoUri
        /\ loadStatus' = b.status
        /\ call' = Idle

\* onDidChangeConfiguration for lspMain.logLevel
LogLevelChanged ==
    /\ host.client # 0 => host.restartTimers < MaxTimers
    /\ host' = IF host.client # 0
               THEN [StopClient(host) EXCEPT !.restartTimers = host.restartTimers + 1]
               ELSE host
    /\ call' = Idle
    /\ UNCHANGED <<database, currentDocumentUri, history, cursorAtLoad, loadStatus>>

\* the callback of the 20 second timer: startLSP(newLogLevel)
RestartTimer ==
    /\ host.restartTimers > 0
    /\ host.created < MaxClients
    /\ host' = [StartLSP(host) EXCEPT !.restartTimers = host.restartTimers - 1]
    /\ call' = Idle
    /\ UNCHANGED <<database, currentDocumentUri, history, cursorAtLoad, loadStatus>>

\* await client.start() returns in a call of startLSP, which sets the
\* 10 second timer
ClientStarted(id) ==
    /\ id \in host.pendingStart
    /\ host' = [host EXCEPT !.pendingStart = @ \ {id}, !.delayTimers = @ \cup {id}]
    /\ call' = Idle
    /\ UNCHANGED <<database, currentDocumentUri, history, cursorAtLoad, loadStatus>>

\* the callback of the 10 second timer: lspStartUp = true
DelayTimer(id) ==
    /\ id \in host.delayTimers
    /\ host' = [host EXCEPT !.delayTimers = @ \ {id}, !.lspStartUp = TRUE]
    /\ call' = Idle
    /\ UNCHANGED <<database, currentDocumentUri, history, cursorAtLoad, loadStatus>>

\* the middleware of the language client, for a request that a started
\* client handles: undefined before lspStartUp, undefined when the resolver
\* of the current backend returns a truthy value for a copy of the position,
\* otherwise next(document, position, token); an exception of the resolver
\* rejects the request
Middleware(op, uri, pos, r) ==
    LET given == Pos(pos.line, pos.character)
        passes == host.lspStartUp /\ r.result.kind # "fault" /\ ~Truthy(r.result)
    IN  /\ \E id \in host.alive : id \notin host.pendingStart
        /\ call' = [op |-> op, uri |-> uri, pos |-> pos,
                    position |-> IF host.lspStartUp THEN Increment(given) ELSE given,
                    result |-> IF host.lspStartUp THEN r.result ELSE None,
                    matched |-> IF host.lspStartUp THEN r.matched ELSE <<>>,
                    found |-> IF host.lspStartUp THEN r.found ELSE <<>>,
                    ready |-> host.lspStartUp,
                    forwarded |-> passes,
                    request |-> IF passes
                                THEN [method |-> Method(IF op = "middleware hover" THEN "hover"
                                                        ELSE "definitions"),
                                      uri |-> uri, position |-> pos]
                                ELSE NoRequest]
        /\ UNCHANGED <<database, currentDocumentUri, history, cursorAtLoad, loadStatus, host>>

\* middleware.provideHover
MiddlewareHover(uri, pos) ==
    Middleware("middleware hover", uri, pos, getHoverData(database, uri, pos))

\* middleware.provideDefinition
MiddlewareDefinition(uri, pos) ==
    Middleware("middleware definition", uri, pos, getDefinitionData(database, uri, pos))

NextHost ==
    \/ \E newMode \in Modes, ws \in Workspaces : ModeChanged(newMode, ws)
    \/ LogLevelChanged
    \/ RestartTimer
    \/ \E id \in 1..MaxClients : ClientStarted(id)
    \/ \E id \in 1..MaxClients : DelayTimer(id)
    \/ \E lines \in HostIndexes : LoadLsifFile(lines)
    \/ \E pos \in HostPositions : Hover(UriA, pos)
    \/ \E pos \in HostPositions : Definition(UriA, pos)
    \/ \E pos \in HostPositions : References(UriA, pos)
    \/ \E pos \in HostPositions : MiddlewareHover(UriA, pos)
    \/ \E pos \in HostPositions : MiddlewareDefinition(UriA, pos)

SpecHost == InitHost /\ [][NextHost]_vars

(***************************************************************************)
(* Definitions shared by the properties.                                   *)
(***************************************************************************)
Resolvers == {"hover", "definitions", "references"}

ToSet(seq) == {seq[i] : i \in 1..Len(seq)}

\* the shard that a resolver call reads, if there is one
HasShard(uri) == MapHas(database.documents, decodeURIComponent(uri))

ShardOf(uri) == MapGet(database.documents, decodeURIComponent(uri))

AllVertices == UNION {ToSet(database.documents[i].vertices) : i \in 1..Len(database.documents)}

AllEdges == UNION {ToSet(database.documents[i].edges) : i \in 1..Len(database.documents)}

\* the uris of the document vertices of the files loaded so far
LoadedDocumentUris ==
    UNION {{l.uri : l \in {x \in ToSet(history[i]) : x.type = "vertex" /\ x.label = "document"}}
           : i \in 1..Len(history)}

\* the position p (0-based) is within the 1-based bounds of r on both axes
Within(p, r) ==
    /\ r.start.line <= p.line + 1 /\ p.line + 1 <= r.end.line
    /\ r.start.character <= p.character + 1 /\ p.character + 1 <= r.end.character

\* the ids of the contains edge of the shard that name a range vertex of the
\* shard with p within its bounds, in the order of the target list
ContainingIds(shard, p) ==
    LET contains == CHOOSE e \in ToSet(shard.edges) :
                        /\ e.label = "contains"
                        /\ \A j \in 1..Len(shard.edges) :
                              shard.edges[j].label = "contains" =>
                                 \E i \in 1..j : shard.edges[i] = e
    IN  SelectSeq(contains.inVs,
                  LAMBDA id : \E v \in ToSet(shard.vertices) :
                                  v.id = id /\ v.label = "range" /\ Within(p, v))

MatchedIds == [i \in 1..Len(call.matched) |-> call.matched[i].id]

IsPrefix(s, t) == Len(s) <= Len(t) /\ \A i \in 1..Len(s) : s[i] = t[i]

\* C1: position matching.  A resolver treats a listed range vertex as
\* containing the 0-based position p iff p+1 is within its 1-based bounds on
\* both axes, bounds included: every range a resolver accepts has p within
\* it; definitions accepts every such range, references the first one, and
\* hover the ranges up to the one that gives its answer.
C1_PositionMatching ==
    (call.op \in Resolvers /\ HasShard(call.uri)
        /\ \E e \in ToSet(ShardOf(call.uri).edges) : e.label = "contains")
    => LET sat == ContainingIds(ShardOf(call.uri), call.pos)
       IN  /\ \A i \in 1..Len(call.matched) : Within(call.pos, call.matched[i])
           /\ call.op = "definitions" => MatchedIds = sat
           /\ call.op = "references" => MatchedIds = IF sat = <<>> THEN <<>> ELSE <<sat[1]>>
           /\ call.op = "hover" =>
                 /\ IsPrefix(MatchedIds, sat)
                 /\ (sat # <<>> => MatchedIds # <<>>)
                 /\ (call.result = None => MatchedIds = sat)

\* a call on the end bound of a range (store position (2,6) of range 3), and
\* a call with the line inside a range and the character outside it
C1_Witness ==
    /\ call.op \in Resolvers
    /\ call.pos = Pos(1, 5)
    /\ call.matched = <<RA1>>

\* the bounds of a stored range with 1 subtracted from each component
MinusOne(v) ==
    [start |-> Pos(v.start.line - 1, v.start.character - 1),
     end |-> Pos(v.end.line - 1, v.end.character - 1)]

\* C2: every location returned by definitions or references has the start
\* and the end of a stored range vertex, a target of an item edge of the
\* resolver's property, with exactly 1 subtracted from each line and each
\* character.
C2_LocationsMinusOne ==
    (call.op \in {"definitions", "references"} /\ call.result.kind = "locations")
    => \A i \in 1..Len(call.result.locations) :
          \E v \in AllVertices, e \in AllEdges :
             /\ v.label = "range"
             /\ e.label = "item" /\ e.property = call.op
             /\ \E k \in 1..Len(e.inVs) : e.inVs[k] = v.id
             /\ call.result.locations[i].range = MinusOne(v)

\* references has returned the three ranges of the symbol, in two documents
C2_Witness ==
    /\ call.op = "references"
    /\ call.result.kind = "locations"
    /\ Len(call.result.locations) = 3
    /\ call.result.locations[3] = [uri |-> UriB, range |-> [start |-> Pos(0, 0), end |-> Pos(0, 2)]]

\* C3: a resolver called with a uri that is the uri of no document vertex of
\* a loaded file returns none, after any loads, successful or failed.
C3_NoDataFallback ==
    (call.op \in Resolvers /\ decodeURIComponent(call.uri) \notin LoadedDocumentUris)
    => call.result = None

\* the values of the fragments, joined from the left with one newline
\* between two fragments
JoinedByNewline(contents) ==
    LET f[i \in 0..Len(contents)] ==
            IF i = 0 THEN ""
            ELSE IF i = 1 THEN contents[1].value
            ELSE f[i - 1] \o "\n" \o contents[i].value
    IN  f[Len(contents)]

\* the hoverResult vertices of the shard behind range r: by a next edge and a
\* textDocument/hover edge, or by a textDocument/hover edge from the range
HoverResultsBehind(shard, r) ==
    {h \in ToSet(shard.vertices) :
        /\ h.label = "hoverResult"
        /\ \E e \in ToSet(shard.edges) :
              /\ e.label = "textDocument/hover" /\ e.inV = h.id
              /\ \/ e.outV = r.id
                 \/ \E n \in ToSet(shard.edges) :
                       n.label = "next" /\ n.outV = r.id /\ n.inV = e.outV}

\* C5: when hover finds a hoverResult vertex, by a next edge or by a direct
\* hover edge, the text is the values of its fragments in stored order with
\* one newline between consecutive fragments; hover returns a text only from
\* such a vertex behind the range it accepted last.
C5_HoverJoin ==
    call.op = "hover"
    => /\ call.found # <<>> => call.result = Text(JoinedByNewline(call.found[1].contents))
       /\ call.result.kind = "text" =>
             /\ call.found # <<>> /\ call.matched # <<>>
             /\ call.found[1] \in HoverResultsBehind(ShardOf(call.uri), call.matched[Len(call.matched)])

\* fragments ["a","b"] behind a direct hover edge have given "a\nb"
C5_Witness ==
    /\ call.op = "hover"
    /\ call.found = <<HR9>>
    /\ call.result = Text("a\nb")
    /\ \E e \in ToSet(ShardOf(call.uri).edges) : e.label = "textDocument/hover" /\ e.outV = call.matched[1].id

\* fragments ["c","a","b"] behind a next edge have given "c\na\nb"
C5_WitnessNext ==
    /\ call.op = "hover"
    /\ call.found = <<HR12>>
    /\ call.result = Text("c\na\nb")

\* the range vertices of the shard of a document
RangesOfShard(entry) == {v \in ToSet(entry.vertices) : v.label = "range"}

\* the item edges of the queried shard that list the range
ItemsListing(uri, r) ==
    {e \in ToSet(ShardOf(uri).edges) : e.label = "item" /\ r.id \in ToSet(e.inVs)}

\* the item edges of the store with the source and the property
ItemsFrom(outV, property) ==
    {e \in AllEdges : e.label = "item" /\ e.outV = outV /\ e.property = property}

\* the entries of the store that are shards of documents
DocumentShards == {d \in ToSet(database.documents) : d.uri \in ToSet(database.vertexIdToDocument)}

\* C6: multi-definition fan-out.  When two definitions item edges have the
\* source of the item edge that lists the queried range, and their targets
\* are ranges of two different documents, definitions returns exactly two
\* locations, one per document, each with that document's range converted
\* to 0-based coordinates.
C6_MultiDefinitionFanOut ==
    (call.op = "definitions" /\ Len(call.matched) = 1
        /\ Cardinality(ItemsListing(call.uri, call.matched[1])) = 1)
    => LET listing == CHOOSE e \in ItemsListing(call.uri, call.matched[1]) : TRUE
           defs == ItemsFrom(listing.outV, "definitions")
       IN  \A d1, d2 \in defs, s1, s2 \in DocumentShards :
           \A r1 \in RangesOfShard(s1), r2 \in RangesOfShard(s2) :
              (defs = {d1, d2} /\ d1 # d2 /\ s1.uri # s2.uri
                  /\ d1.inVs = <<r1.id>> /\ d2.inVs = <<r2.id>>)
              => /\ call.result.kind = "locations"
                 /\ Len(call.result.locations) = 2
                 /\ ToSet(call.result.locations) =
                       {[uri |-> s1.uri, range |-> MinusOne(r1)], [uri |-> s2.uri, range |-> MinusOne(r2)]}

\* the case of C6 in the layout of the producer: both locations are returned
C6_FanOutReached ==
    /\ call.op = "definitions"
    /\ history = <<TwoDefsIndex>>
    /\ call.result.kind = "locations"
    /\ Len(call.result.locations) = 2

\* the range vertices of the store
AllRanges == {v \in AllVertices : v.label = "range"}

\* no target of an edge of the set is a range vertex of the store
NoRangeTarget(items) == \A e \in items : \A v \in AllRanges : v.id \notin ToSet(e.inVs)

\* the referenceResult vertices behind range r in the shard
ReferenceResultsBehind(shard, r) ==
    {rr \in ToSet(shard.vertices) :
        /\ rr.label = "referenceResult"
        /\ \E n, t \in ToSet(shard.edges), rs \in ToSet(shard.vertices) :
              /\ n.label = "next" /\ n.outV = r.id /\ n.inV = rs.id /\ rs.label = "resultSet"
              /\ t.label = "textDocument/references" /\ t.outV = rs.id /\ t.inV = rr.id}

\* C7: empty-vs-absent.  When the chain up to the final item edges is there
\* and every such item edge has an empty target list or no target that is a
\* range, definitions and references return none: never an empty list, and
\* nothing else.
C7_EmptyVsAbsent ==
    /\ ( /\ call.op = "definitions"
         /\ call.matched # <<>>
         /\ \E r \in ToSet(call.matched) : \E e \in ItemsListing(call.uri, r) :
                ItemsFrom(e.outV, "definitions") # {}
         /\ \A r \in ToSet(call.matched) : \A e \in ItemsListing(call.uri, r) :
                NoRangeTarget(ItemsFrom(e.outV, "definitions")) )
       => call.result = None
    /\ ( /\ call.op = "references"
         /\ call.matched # <<>>
         /\ \E rr \in ReferenceResultsBehind(ShardOf(call.uri), call.matched[1]) :
                ItemsFrom(rr.id, "references") # {}
         /\ \A rr \in ReferenceResultsBehind(ShardOf(call.uri), call.matched[1]) :
                NoRangeTarget(ItemsFrom(rr.id, "references")) )
       => call.result = None
    /\ call.op \in {"definitions", "references"} =>
          ~(call.result.kind = "locations" /\ call.result.locations = <<>>)

\* C10: atomic load failure.  After a load that failed on a line that is not
\* JSON, the store that the queries read holds no record of the failed file:
\* no shard built from the lines before the bad line, no unsorted shard.
C10_AtomicLoadFailure ==
    loadStatus = "threw" => database = EmptyDatabase

\* the shards that load builds from the file in a new backend
FreshShards(lines) == LoadRun(EmptyDatabase, NoUri, lines).documents

\* the file has an item edge with a shard field behind a contains edge, the
\* block from which the repair pass takes its triples
HasUnassignedTriple(lines) ==
    \E i, j \in DOMAIN lines :
        /\ i < j
        /\ lines[i].label = "contains"
        /\ lines[j].label = "item" /\ lines[j].shard # 0

\* C8: reload determinism.  Loading a file with a cross-file triple in the
\* unassigned block and loading the same file again, on the same backend or
\* a new one, leaves the shards that the first load left; what load builds
\* depends on the file alone.
C8_ReloadDeterminism ==
    /\ (Len(history) = 2 /\ history[1] = history[2] /\ HasUnassignedTriple(history[1])
          /\ loadStatus = "ok")
       => database.documents = FreshShards(history[1])
    /\ (history # <<>> /\ loadStatus = "ok")
       => database.documents = FreshShards(history[Len(history)])

\* C9: a load discards the previous graph.  After load(S1) and load(S2) the
\* shards and the id -> uri map hold records of S2 only, and the cursor was
\* unset when load(S2) began.
C9_LoadDiscardsPrevious ==
    (Len(history) = 2 /\ loadStatus = "ok")
    => LET S2 == ToSet(history[2])
           docs == {l \in S2 : l.type = "vertex" /\ l.label = "document"}
       IN  /\ AllVertices \cup AllEdges \subseteq S2
           /\ \A i \in DOMAIN database.documents : \E d \in docs : d.uri = database.documents[i].uri
           /\ \A id \in DOMAIN database.vertexIdToDocument :
                 \E d \in docs : d.id = id /\ d.uri = database.vertexIdToDocument[id]
           /\ cursorAtLoad = NoUri

\* C4: end-to-end hover.  In every order of the records behind the document vertex,
\* hover at (1,3) returns "x" and hover at (5,5) returns none.
C4_EndToEndAnyOrder ==
    (call.op = "hover" /\ history # <<>> /\ history[1] \in E2EOrders /\ call.uri = UriA)
    => /\ call.pos = Pos(1, 3) => call.result = Text("x")
       /\ call.pos = Pos(5, 5) => call.result = None

\* the record has none of the three fields missing
HasRequiredFields(l) == l.id # 0 /\ l.label # "" /\ l.type # ""

\* the lines of the file that JSON.parse returns a record for: those before
\* the first line that is not JSON
ParsedLines(lines) ==
    {lines[i] : i \in {j \in 1..Len(lines) :
        /\ lines[j].type # "blank"
        /\ \A k \in 1..j : lines[k].type # "malformed"}}

\* C11: load fails whenever a parsed record lacks id, label or type; such a
\* record is neither skipped without an error nor stored in a shard.
C11_MissingFieldFails ==
    (history # <<>> /\ \E l \in ParsedLines(history[Len(history)]) : ~HasRequiredFields(l))
    => /\ loadStatus = "threw"
       /\ \A r \in AllVertices \cup AllEdges : HasRequiredFields(r)

\* C12: no resolver call ends in an error, whatever is missing from the
\* shard it searches; a lookup miss gives none.
C12_ResolversNeverFault ==
    call.op \in Resolvers => call.result.kind # "fault"

\* what load, with its repair pass, has built in the backend in use
BuiltByLoad ==
    IF history = <<>> THEN EmptyDatabase
    ELSE LET st == LoadRun(EmptyDatabase, NoUri, history[1])
         IN  [documents |-> st.documents, vertexIdToDocument |-> st.vertexIdToDocument]

\* C13: queries are pure reads.  After any resolver call, whatever it has
\* returned, the shards (vertex and edge lists, contents and order) and the
\* id -> uri map are those that load and its repair pass have built.
C13_QueriesPureReads ==
    call.op \in Resolvers => database = BuiltByLoad

\* definitions has returned locations from a store built with a repair pass
C13_Witness ==
    /\ call.op = "definitions" /\ call.result.kind = "locations"
    /\ history = <<TwoDefsIndex>> /\ database # EmptyDatabase

\* the resolver of the call, applied to the store in use
ResolverResult(op, uri, position) ==
    CASE op = "hover" -> getHoverData(database, uri, position).result
      [] op = "definitions" -> getDefinitionData(database, uri, position).result
      [] OTHER -> getReferencesData(database, uri, position).result

\* C14: a resolver call leaves the position object it was given as it was,
\* and the same call made again with that object on the same store returns
\* what the first call returned.
C14_QueriesRepeatable ==
    call.op \in Resolvers
    => /\ call.position = call.pos
       /\ ResolverResult(call.op, call.uri, call.position) = call.result

\* the stores that a load which ran to its end leaves in a new backend
FullStores ==
    {EmptyDatabase} \cup
    {[documents |-> LoadRun(EmptyDatabase, NoUri, f).documents,
      vertexIdToDocument |-> LoadRun(EmptyDatabase, NoUri, f).vertexIdToDocument] :
        f \in {g \in Indexes : ~LoadRun(EmptyDatabase, NoUri, g).threw}}

\* C16: no torn store.  The store that a query reads is the graph of a load
\* that ran to its end (or the store of a backend that has loaded nothing),
\* also after a load that failed part-way.
C16_NoTornStore ==
    call.op \in Resolvers => database \in FullStores

\* the records of the file from line i up to the next document vertex
BlockOf(lines, i) ==
    LET last == IF \E j \in (i + 1)..Len(lines) : lines[j].label = "document" /\ lines[j].type = "vertex"
                THEN (CHOOSE j \in (i + 1)..Len(lines) :
                         /\ lines[j].label = "document" /\ lines[j].type = "vertex"
                         /\ \A k \in (i + 1)..(j - 1) :
                               ~(lines[k].label = "document" /\ lines[k].type = "vertex")) - 1
                ELSE Len(lines)
    IN  SubSeq(lines, i, last)

\* every element of s is in t, and in the order of s
InOrderIn(s, t) ==
    /\ \A i \in 1..Len(s) : \E j \in 1..Len(t) : t[j] = s[i]
    /\ \A i1, i2 \in 1..Len(s) :
          i1 < i2 => \E j1, j2 \in 1..Len(t) : j1 < j2 /\ t[j1] = s[i1] /\ t[j2] = s[i2]

\* C17: document-block membership.  After a load into a new backend, the
\* vertices and edges of the file from a document vertex D up to the next
\* document vertex are in the shard of D's uri, in file order, those behind
\* D's contains edge included.
C17_DocumentBlockMembership ==
    (Len(history) = 1 /\ loadStatus = "ok" /\ cursorAtLoad = NoUri)
    => LET lines == FilterLines(history[1])
       IN  \A i \in 1..Len(lines) :
              (lines[i].label = "document" /\ lines[i].type = "vertex")
              => /\ MapHas(database.documents, lines[i].uri)
                 /\ LET shard == MapGet(database.documents, lines[i].uri)
                        block == BlockOf(lines, i)
                    IN  /\ InOrderIn(SelectSeq(block, LAMBDA l : l.type = "vertex"), shard.vertices)
                        /\ InOrderIn(SelectSeq(block, LAMBDA l : l.type = "edge"), shard.edges)

\* the state of load in a new backend after the first k lines of the file
AfterLines(lines, k) ==
    ForEachLine(LoadState(EmptyDatabase, NoUri), SubSeq(FilterLines(lines), 1, k), 1)

\* C18: orphan contains edges.  A contains edge read while no cursor is set
\* is stored in the "unsorted" shard, and a contains edge read while the
\* cursor is on a document leaves the cursor on that document.
C18_OrphanContains ==
    (Len(history) = 1 /\ cursorAtLoad = NoUri)
    => LET lines == FilterLines(history[1])
       IN  \A k \in 1..Len(lines) :
              LET before == AfterLines(history[1], k - 1)
                  after == AfterLines(history[1], k)
              IN  (lines[k].label = "contains" /\ lines[k].type = "edge" /\ ~after.threw)
                  => /\ before.cur = NoUri
                        => /\ MapHas(after.documents, "unsorted")
                           /\ Includes(MapGet(after.documents, "unsorted").edges, lines[k])
                     /\ before.cur \notin {NoUri, "unsorted"} => after.cur = before.cur

\* the state of load in a new backend when the forEach has ended, before
\* the repair pass
BeforeRepair == ForEachLine(LoadState(EmptyDatabase, NoUri), FilterLines(history[1]), 1)

\* a load into a new backend has run to its end with an unsorted shard
Repaired ==
    /\ Len(history) = 1 /\ loadStatus = "ok" /\ cursorAtLoad = NoUri
    /\ MapHas(BeforeRepair.documents, "unsorted")

Unsorted == MapGet(BeforeRepair.documents, "unsorted")

\* the item edges of the unsorted shard whose shard field is the id of a
\* document in the id -> uri map
OwnedItems ==
    {e \in ToSet(Unsorted.edges) :
        e.label = "item" /\ e.shard # 0 /\ e.shard \in DOMAIN database.vertexIdToDocument}

\* C19: repair pass.  After a load that ran to its end, for every item edge
\* E of the unsorted shard with a shard field in the id -> uri map, the shard
\* of the owning document holds E, the edge with id E.id-1 and the vertex
\* with id E.id-2 when the unsorted shard had them.
C19_RepairPass ==
    Repaired
    => \A E \in OwnedItems :
          /\ MapHas(database.documents, database.vertexIdToDocument[E.shard])
          /\ LET owner == MapGet(database.documents, database.vertexIdToDocument[E.shard])
             IN  /\ Includes(owner.edges, E)
                 /\ \A e \in ToSet(Unsorted.edges) : e.id = E.id - 1 => Includes(owner.edges, e)
                 /\ \A v \in ToSet(Unsorted.vertices) : v.id = E.id - 2 => Includes(owner.vertices, v)

\* the repair pass has copied a whole triple into the shard of document b
C19_Witness ==
    /\ Repaired /\ history = <<TwoDefsIndex>>
    /\ LET owner == MapGet(database.documents, UriB)
       IN  /\ Includes(owner.edges, Item(45, 50, <<21>>, "definitions", 2))
           /\ Includes(owner.edges, Edge1("next", 44, 21, 43))
           /\ Includes(owner.vertices, Vertex("resultSet", 43))

\* what the repair pass has appended to the shard: the records behind
\* those that the shard had when the forEach ended
AddedVertices(entry) ==
    SubSeq(entry.vertices, Len(MapGet(BeforeRepair.documents, entry.uri).vertices) + 1, Len(entry.vertices))

AddedEdges(entry) ==
    SubSeq(entry.edges, Len(MapGet(BeforeRepair.documents, entry.uri).edges) + 1, Len(entry.edges))

\* C20 as stated: every record that the repair pass adds to a shard is an
\* item edge with a shard field, a next edge or a resultSet vertex.
C20_ExactlyTheTriple ==
    Repaired
    => \A n \in 1..Len(database.documents) :
          LET entry == database.documents[n]
          IN  /\ \A v \in ToSet(AddedVertices(entry)) : v.label = "resultSet"
              /\ \A e \in ToSet(AddedEdges(entry)) :
                    (e.label = "item" /\ e.shard # 0) \/ e.label = "next"

\* the file has, for every item edge with a shard field, nothing but a next
\* edge at the id before it and nothing but a resultSet vertex two ids before
ProducerLayout(lines) ==
    \A i, j \in 1..Len(lines) :
        (lines[i].label = "item" /\ lines[i].type = "edge" /\ lines[i].shard # 0)
        => /\ (lines[j].type = "edge" /\ lines[j].id = lines[i].id - 1)
              => (lines[j].label = "next" \/ (lines[j].label = "item" /\ lines[j].shard # 0))
           /\ (lines[j].type = "vertex" /\ lines[j].id = lines[i].id - 2)
              => lines[j].label = "resultSet"

\* C20, amended: every record that the repair pass adds to a shard is an
\* item edge of the unsorted shard whose shard field names the document of
\* that shard, or the edge of the unsorted shard with the id before such an
\* item edge, or the vertex of the unsorted shard two ids before it,
\* whatever its label; these are next edges and resultSet vertices when the
\* file has the layout of the producer.
C20_ExactlyByIdArithmetic ==
    Repaired
    => \A n \in 1..Len(database.documents) :
          LET entry == database.documents[n]
              Items == {E \in OwnedItems : database.vertexIdToDocument[E.shard] = entry.uri}
          IN  /\ \A v \in ToSet(AddedVertices(entry)) :
                    /\ \E E \in Items : v.id = E.id - 2 /\ Includes(Unsorted.vertices, v)
                    /\ ProducerLayout(history[1]) => v.label = "resultSet"
              /\ \A e \in ToSet(AddedEdges(entry)) :
                    /\ Includes(Unsorted.edges, e)
                    /\ e \in Items \/ \E E \in Items : e.id = E.id - 1
                    /\ ProducerLayout(history[1])
                       => ((e.label = "item" /\ e.shard # 0) \/ e.label = "next")

\* the repair pass has copied a hover edge and a hoverResult vertex, the
\* records at the two ids before an item edge, into the shard of document a
C20_Witness ==
    /\ Repaired /\ history = <<OtherTripleIndex>>
    /\ LET entry == MapGet(database.documents, UriA)
       IN  /\ Includes(AddedVertices(entry), HoverResult(40, <<"y">>))
           /\ Includes(AddedEdges(entry), Edge1("textDocument/hover", 41, 3, 40))

\* C15 as stated: each of the three providers forwards the request it got
\* to the language server only when the resolver returned none, and does
\* forward it whenever the resolver returned none and the client is running
\* and ready.
C15_HostFallback ==
    call.op \in Resolvers
    => /\ call.forwarded
          => /\ call.result = None
             /\ call.request.uri = call.uri /\ call.request.position = call.pos
       /\ (call.result = None /\ call.ready) => call.forwarded

\* C15, amended: the hover and definition providers call the resolver
\* first; they forward the request they got only when the resolver returned
\* none or an empty text and the client is running and ready, and they do
\* forward it whenever the resolver returned none and the client is running
\* and ready.  The references provider never forwards.
C15_HoverDefinitionFallback ==
    call.op \in Resolvers
    => /\ call.forwarded
          => /\ call.op \in {"hover", "definitions"}
             /\ call.result \in {None, Text("")}
             /\ call.ready
             /\ call.request = [method |-> Method(call.op), uri |-> call.uri, position |-> call.pos]
       /\ (call.op \in {"hover", "definitions"} /\ call.result = None /\ call.ready)
          => call.forwarded
       /\ call.op = "references" => ~call.forwarded

\* the hover provider has forwarded a request for which the resolver
\* returned none from a loaded index
C15_Witness ==
    /\ call.op = "hover" /\ call.result = None /\ call.forwarded
    /\ database # EmptyDatabase

\* C21: after a load that returns normally the store has no shard under the
\* key "unsorted", and a record of the unsorted shard that the repair pass
\* did not copy is in no shard.
C21_UnassignedDiscarded ==
    /\ loadStatus = "ok" => ~MapHas(database.documents, "unsorted")
    /\ Repaired
       => /\ \A v \in ToSet(Unsorted.vertices) :
                v \in AllVertices
                => \E n \in 1..Len(database.documents) :
                      Includes(AddedVertices(database.documents[n]), v)
          /\ \A e \in ToSet(Unsorted.edges) :
                e \in AllEdges
                => \E n \in 1..Len(database.documents) :
                      Includes(AddedEdges(database.documents[n]), e)

\* a load has ended with records in the unsorted shard that no item edge
\* brings into a shard, and they are gone with that shard
C21_Witness ==
    /\ Repaired /\ history = <<HoverIndexContainsEarly>>
    /\ Includes(Unsorted.vertices, HR7) /\ Includes(Unsorted.edges, Hov8)
    /\ HR7 \notin AllVertices /\ Hov8 \notin AllEdges
    /\ ~MapHas(database.documents, "unsorted")

\* the query has a shard with a contains edge, and a range of its target
\* list has the position
SomeRangeMatches ==
    /\ HasShard(call.uri)
    /\ \E e \in ToSet(ShardOf(call.uri).edges) : e.label = "contains"
    /\ ContainingIds(ShardOf(call.uri), call.pos) # <<>>

\* the range of the target list that has the position and comes first
FirstMatch ==
    CHOOSE v \in ToSet(ShardOf(call.uri).vertices) :
        v.label = "range" /\ v.id = ContainingIds(ShardOf(call.uri), call.pos)[1]

\* C22: first match wins.  Hover and definitions use the first range of the
\* contains edge's target list that has the position: without a hover chain
\* (an item edge) for that range the result is none, and a result comes from
\* that range alone.
C22_FirstMatchWins ==
    /\ (call.op = "hover" /\ SomeRangeMatches)
       => /\ HoverResultsBehind(ShardOf(call.uri), FirstMatch) = {} => call.result = None
          /\ call.result.kind = "text"
             => call.found[1] \in HoverResultsBehind(ShardOf(call.uri), FirstMatch)
    /\ (call.op = "definitions" /\ SomeRangeMatches)
       => /\ ItemsListing(call.uri, FirstMatch) = {} => call.result = None
          /\ call.result = Collected(DefinitionsOfRange(database, ShardOf(call.uri), FirstMatch))

\* the target list of the contains edge of a shard
ContainsTargets(entry) ==
    IF ContainsEdgeIndex(entry) = 0 THEN {}
    ELSE ToSet(entry.edges[ContainsEdgeIndex(entry)].inVs)

\* the shards of the document that owns an item edge: the document of its
\* shard field, or without one the shards in which the edge is stored
Owners(e) ==
    IF e.shard \in DOMAIN database.vertexIdToDocument
    THEN {d \in ToSet(database.documents) : d.uri = database.vertexIdToDocument[e.shard]}
    ELSE {d \in ToSet(database.documents) : Includes(d.edges, e)}

\* the locations of the definitions item edges behind the matched ranges:
\* one for every vertex that is a target of the edge and of the contains
\* edge of the defining document
DefinitionTargets ==
    UNION {UNION {UNION {UNION {
        {[uri |-> own.uri, range |-> MinusOne(v)] :
            v \in {x \in RangesOfShard(own) :
                      x.id \in ToSet(d.inVs) /\ x.id \in ContainsTargets(own)}}
        : own \in Owners(d)}
        : d \in ItemsFrom(e.outV, "definitions")}
        : e \in ItemsListing(call.uri, r)}
        : r \in ToSet(call.matched)}

\* the locations of a result, none being no location
LocationSet(r) == IF r.kind = "locations" THEN ToSet(r.locations) ELSE {}

\* C23: definition targets.  For every definitions item edge with the
\* source of the item edge that lists the queried range, definitions returns
\* a location for every vertex that is in the target list of the defining
\* document's contains edge and in the target list of the item edge, all of
\* them, and no location for another vertex.
C23_DefinitionTargets ==
    (call.op = "definitions" /\ call.matched # <<>>)
    => /\ call.result.kind \in {"none", "locations"}
       /\ LocationSet(call.result) = DefinitionTargets

\* the references item edges of the store behind the matched range
ReferenceItems ==
    UNION {ItemsFrom(rr.id, "references") :
              rr \in ReferenceResultsBehind(ShardOf(call.uri), call.matched[1])}

\* a location for every target of those item edges that is a range vertex
\* of the store, with the uri of the document that owns the edge
ReferenceTargets ==
    UNION {UNION {{[uri |-> own.uri, range |-> MinusOne(v)] :
                      v \in {x \in AllRanges : x.id \in ToSet(e.inVs)}}
                  : own \in Owners(e)}
           : e \in ReferenceItems}

\* C24: reference aggregation.  When the referenceResult of the queried
\* range is found, references returns a location for every target that is a
\* range vertex of every references item edge from that referenceResult, in
\* whatever shard the edge is, and no other location.
C24_ReferenceAggregation ==
    (call.op = "references" /\ call.matched # <<>>
        /\ ReferenceResultsBehind(ShardOf(call.uri), call.matched[1]) # {})
    => /\ call.result.kind \in {"none", "locations"}
       /\ LocationSet(call.result) = ReferenceTargets

\* C25: reference ownership.  The uri of a location returned for a
\* references item edge is the uri of the document that the shard field of
\* the edge names, and without such a document the uri of the shard in which
\* the scan found the edge.
C25_ReferenceOwnership ==
    (call.op = "references" /\ call.result.kind = "locations")
    => \A i \in 1..Len(call.result.locations) :
          \E e \in ReferenceItems, v \in AllRanges :
             /\ v.id \in ToSet(e.inVs)
             /\ call.result.locations[i].range = MinusOne(v)
             /\ call.result.locations[i].uri \in {own.uri : own \in Owners(e)}

\* C26: references follows the chain of the first range of the contains
\* edge's target list that has the position: that range is the one it
\* accepts, there is no result without a referenceResult behind it, and
\* every location is a target of an item edge from such a referenceResult.
C26_ReferencesFirstMatch ==
    (call.op = "references" /\ SomeRangeMatches)
    => /\ call.matched = <<FirstMatch>>
       /\ ReferenceResultsBehind(ShardOf(call.uri), FirstMatch) = {} => call.result = None
       /\ call.result.kind = "locations"
          => \A i \in 1..Len(call.result.locations) :
                \E rr \in ReferenceResultsBehind(ShardOf(call.uri), FirstMatch) :
                \E e \in ItemsFrom(rr.id, "references"), v \in AllRanges :
                   v.id \in ToSet(e.inVs) /\ call.result.locations[i].range = MinusOne(v)

\* two ranges with chains of their own have the position, and references
\* has returned the location behind the one that is first in the list
C26_Witness ==
    /\ call.op = "references" /\ history = <<OverlapRefsIndex>>
    /\ HasShard(call.uri)
    /\ Len(ContainingIds(ShardOf(call.uri), call.pos)) = 2
    /\ call.matched = <<RA2>>
    /\ call.result = Locations(<<[uri |-> UriA, range |-> MinusOne(RAd)]>>)

\* the ids of the records of the file are unique
UniqueIds(lines) == \A i, j \in 1..Len(lines) : i # j => lines[i].id # lines[j].id

\* the places of the store: shard n, vertex list or edge list, position k
Places ==
    UNION {({n} \X {"v"} \X DOMAIN database.documents[n].vertices)
           \cup ({n} \X {"e"} \X DOMAIN database.documents[n].edges)
           : n \in 1..Len(database.documents)}

RecordAt(pl) ==
    IF pl[2] = "v" THEN database.documents[pl[1]].vertices[pl[3]]
    ELSE database.documents[pl[1]].edges[pl[3]]

\* C27: no duplicated records.  After a load of a file with unique ids into
\* a new backend every record is at one place of the store at most, and
\* references and definitions return no location twice.
C27_NoDuplicates ==
    (Len(history) = 1 /\ loadStatus = "ok" /\ cursorAtLoad = NoUri /\ UniqueIds(history[1]))
    => /\ \A p1, p2 \in Places : RecordAt(p1) = RecordAt(p2) => p1 = p2
       /\ (call.op \in {"definitions", "references"} /\ call.result.kind = "locations")
          => \A i, j \in 1..Len(call.result.locations) :
                call.result.locations[i] = call.result.locations[j] => i = j

\* C28: mode excludes LSP.  While the mode that the configuration handler
\* has read is "LSIF only" or "Neither" the extension holds no language
\* client and no client is alive: startLSP has not run since that mode was
\* set, whatever log-level changes and restart timers came before.
C28_ModeExcludesLSP ==
    host.mode \notin WithLSP => host.client = 0 /\ host.alive = {}

\* the 10 second timer of the startLSP call that made client id has fired
TimerFired(id) ==
    id \in 1..host.created /\ id \notin host.pendingStart /\ id \notin host.delayTimers

\* C29: single LSP client.  At most one LanguageClient is alive (started
\* and not stopped), and while the extension holds a client lspStartUp is
\* true only if the delay timer of that client has fired.
C29_SingleClient ==
    /\ Cardinality(host.alive) <= 1
    /\ (host.client # 0 /\ host.lspStartUp) => TimerFired(host.client)

\* the middleware has returned undefined for a request because the resolver
\* returned data
Suppressed ==
    /\ call.op \in {"middleware hover", "middleware definition"}
    /\ call.ready /\ ~call.forwarded /\ Truthy(call.result)

\* C30: no hover or definition request is dropped by both sources.  When
\* the middleware suppresses the server's answer because the resolver
\* returned data, the LSIF providers are registered, and the provider for
\* the request returns that data.
C30_NotDroppedByBoth ==
    Suppressed
    => /\ host.providers
       /\ LET op == IF call.op = "middleware hover" THEN "hover" ELSE "definitions"
              r == IF op = "hover" THEN getHoverData(database, call.uri, call.pos)
                   ELSE getDefinitionData(database, call.uri, call.pos)
          IN  /\ Provided(op, call.uri, call.pos, r).result = call.result
              /\ ~Provided(op, call.uri, call.pos, r).forwarded

====
